---- MODULE Spec2Model ----
(***************************************************************************)
(* Model of the rockets event-sourcing backend: the Rocket aggregate       *)
(* (internal/domain), the in-memory event store and the cached repository  *)
(* (internal/infrastructure), the ordering engine ProcessMessage and the   *)
(* worker pool (internal/application).                                     *)
(*                                                                         *)
(* Message timestamps (dto.Time, event.Timestamp) and the OldSpeed /       *)
(* OldMission fields of events are carried by the code but never read by   *)
(* any transition; they are not part of the state here.                    *)
(***************************************************************************)
EXTENDS Integers, Sequences, FiniteSets, TLC

\* ---------------------------------------------------------------- bounds
\* Highest sequence number a delivered message carries.
MaxNum == 2
\* Number of Enqueue calls in one behaviour.
MaxMsgs == 3
\* Number of Enqueue calls for the other channel beside a script (SpecIso).
MaxOther == 2
DrainLen == 4
\* Longest event log a rehydration starts from (SpecReplay).
HistLen == 2
\* Number of commands of the script on R1 in SpecIso.
IsoLen == 2
\* Number of commands of the script on R1 in SpecPerm.
PermLen == 3
\* make(chan *ProcessMessageDTO, 100)
JobsCapacity == 100

Workers == {"w1", "w2"}
\* the goroutines of the HTTP server that run HandleMessages
Callers == {"h1", "h2"}
Readers == {"g1", "g2"}
ChannelNames == {"R1", "R2"}

\* ------------------------------------------------------- value objects
StatusLaunched == "launched"
StatusFlying == "flying"
StatusExploded == "exploded"

MissionExploration == "exploration"
MissionSatellite == "satellite"
MissionResupply == "resupply"
MissionUnknown == "unknown"

\* strings.TrimSpace over the channel strings of the model
TrimSpace(s) == IF s \in {"", " "} THEN "" ELSE s

\* a NewChannel that compares the value without trimming it
NewChannelOkUntrimmed(value) == value # ""

\* NewChannel succeeds (err == nil)
NewChannelOk(value) == TrimSpace(value) # ""

\* NewMessageNumber succeeds (err == nil)
NewMessageNumberOk(value) == value > 0

\* NewSpeed: a *Speed, nil when value < 0
NewSpeed(value) ==
    IF value < 0 THEN [isNil |-> TRUE, value |-> 0]
    ELSE [isNil |-> FALSE, value |-> value]

\* Speed.Increase
SpeedIncrease(s, delta) == s + delta

\* Speed.Decrease
SpeedDecrease(s, delta) == IF delta >= s THEN 0 ELSE s - delta

\* strings.ToLower over the mission strings of the model
ToLower(s) ==
    CASE s = "Exploration" -> "exploration"
      [] s = "SATELLITE" -> "satellite"
      [] OTHER -> s

\* NewMission
NewMission(value) ==
    LET m == ToLower(value)
    IN IF m \in {MissionExploration, MissionSatellite, MissionResupply}
       THEN m ELSE MissionUnknown

\* ------------------------------------------------------------- events
RocketLaunched(ch, msgNum, rocketType, speed, mission) ==
    [type |-> "rocket_launched", channel |-> ch, messageNumber |-> msgNum,
     rocketType |-> rocketType, speed |-> speed, mission |-> mission]

RocketSpeedIncreased(ch, msgNum, newSpeed, delta) ==
    [type |-> "rocket_speed_increased", channel |-> ch, messageNumber |-> msgNum,
     newSpeed |-> newSpeed, delta |-> delta]

RocketSpeedDecreased(ch, msgNum, newSpeed, delta) ==
    [type |-> "rocket_speed_decreased", channel |-> ch, messageNumber |-> msgNum,
     newSpeed |-> newSpeed, delta |-> delta]

RocketExploded(ch, msgNum, reason) ==
    [type |-> "rocket_exploded", channel |-> ch, messageNumber |-> msgNum,
     reason |-> reason]

RocketMissionChanged(ch, msgNum, newMission) ==
    [type |-> "rocket_mission_changed", channel |-> ch, messageNumber |-> msgNum,
     newMission |-> newMission]

\* ---------------------------------------------------- rocket aggregate
NewRocket(ch) ==
    [channel |-> ch, rocketType |-> "unknown", status |-> StatusLaunched,
     speed |-> 0, mission |-> MissionUnknown, lastMessageNumber |-> 0,
     uncommittedEvents |-> <<>>]

\* Rocket.applyEvent
applyEvent(r, e) ==
    CASE e.type = "rocket_launched" ->
           [r EXCEPT !.status = StatusFlying, !.rocketType = e.rocketType,
                     !.speed = e.speed, !.mission = e.mission,
                     !.lastMessageNumber = e.messageNumber]
      [] e.type = "rocket_speed_increased" ->
           [r EXCEPT !.speed = e.newSpeed, !.lastMessageNumber = e.messageNumber]
      [] e.type = "rocket_speed_decreased" ->
           [r EXCEPT !.speed = e.newSpeed, !.lastMessageNumber = e.messageNumber]
      [] e.type = "rocket_exploded" ->
           [r EXCEPT !.status = StatusExploded, !.lastMessageNumber = e.messageNumber]
      [] e.type = "rocket_mission_changed" ->
           [r EXCEPT !.mission = e.newMission, !.lastMessageNumber = e.messageNumber]
      [] OTHER -> r

\* result of an aggregate command: the error string ("" is nil), whether the
\* call panicked, and the rocket after the call
CmdOk(r) == [err |-> "", panic |-> FALSE, rocket |-> r]
CmdErr(r, msg) == [err |-> msg, panic |-> FALSE, rocket |-> r]
CmdPanic(r) == [err |-> "", panic |-> TRUE, rocket |-> r]

\* r.applyEvent(event); r.uncommittedEvents = append(r.uncommittedEvents, event)
Emit(r, event) ==
    LET a == applyEvent(r, event)
    IN [a EXCEPT !.uncommittedEvents = Append(a.uncommittedEvents, event)]

\* a Launch without the check of the pre-flight status
LaunchUnchecked(r, msgNum, rocketType, speed, mission) ==
    IF msgNum <= r.lastMessageNumber THEN CmdErr(r, "message number out of order")
    ELSE IF speed.isNil THEN CmdPanic(r)
    ELSE CmdOk(Emit(r, RocketLaunched(r.channel, msgNum, rocketType, speed.value, mission)))

\* a Launch that records the number of a command it rejects
LaunchConsumesNumber(r, msgNum, rocketType, speed, mission) ==
    IF r.status # StatusLaunched
    THEN CmdErr([r EXCEPT !.lastMessageNumber = msgNum], "rocket already launched")
    ELSE IF msgNum <= r.lastMessageNumber THEN CmdErr(r, "message number out of order")
    ELSE IF speed.isNil THEN CmdPanic(r)
    ELSE CmdOk(Emit(r, RocketLaunched(r.channel, msgNum, rocketType, speed.value, mission)))

\* Rocket.Launch; speed is the *Speed of NewSpeed, dereferenced by speed.Value()
\* in the slog.Info call that precedes applyEvent
Launch(r, msgNum, rocketType, speed, mission) ==
    IF r.status # StatusLaunched THEN CmdErr(r, "rocket already launched")
    ELSE IF msgNum <= r.lastMessageNumber THEN CmdErr(r, "message number out of order")
    ELSE IF speed.isNil THEN CmdPanic(r)
    ELSE CmdOk(Emit(r, RocketLaunched(r.channel, msgNum, rocketType, speed.value, mission)))

\* Rocket.IncreaseSpeed
IncreaseSpeed(r, msgNum, delta) ==
    IF r.status = StatusExploded THEN CmdErr(r, "cannot change crashed rocket")
    ELSE IF msgNum <= r.lastMessageNumber THEN CmdErr(r, "message number out of order")
    ELSE CmdOk(Emit(r, RocketSpeedIncreased(r.channel, msgNum,
                                            SpeedIncrease(r.speed, delta), delta)))

\* Rocket.DecreaseSpeed
DecreaseSpeed(r, msgNum, delta) ==
    IF r.status = StatusExploded THEN CmdErr(r, "cannot change crashed rocket")
    ELSE IF msgNum <= r.lastMessageNumber THEN CmdErr(r, "message number out of order")
    ELSE CmdOk(Emit(r, RocketSpeedDecreased(r.channel, msgNum,
                                            SpeedDecrease(r.speed, delta), delta)))

\* an Explode without the check of StatusExploded
ExplodeUnchecked(r, msgNum, reason) ==
    IF msgNum <= r.lastMessageNumber THEN CmdErr(r, "message number out of order")
    ELSE CmdOk(Emit(r, RocketExploded(r.channel, msgNum, reason)))

\* Rocket.Explode
Explode(r, msgNum, reason) ==
    IF r.status = StatusExploded THEN CmdErr(r, "rocket already exploded")
    ELSE IF msgNum <= r.lastMessageNumber THEN CmdErr(r, "message number out of order")
    ELSE CmdOk(Emit(r, RocketExploded(r.channel, msgNum, reason)))

\* a ChangeMission without the check of StatusExploded
ChangeMissionUnchecked(r, msgNum, newMission) ==
    IF msgNum <= r.lastMessageNumber THEN CmdErr(r, "message number out of order")
    ELSE CmdOk(Emit(r, RocketMissionChanged(r.channel, msgNum, newMission)))

\* Rocket.ChangeMission
ChangeMission(r, msgNum, newMission) ==
    IF r.status = StatusExploded THEN CmdErr(r, "cannot change crashed rocket")
    ELSE IF msgNum <= r.lastMessageNumber THEN CmdErr(r, "message number out of order")
    ELSE CmdOk(Emit(r, RocketMissionChanged(r.channel, msgNum, newMission)))

RECURSIVE LoadFromHistory(_, _)
\* Rocket.LoadFromHistory
LoadFromHistory(r, evs) ==
    IF evs = <<>> THEN r
    ELSE LoadFromHistory(applyEvent(r, Head(evs)), Tail(evs))

\* -------------------------------------------------------- DTO / inputs
ProcessMessageDTO(ch, num, action, param, value, rocketType) ==
    [Channel |-> ch, Number |-> num, Action |-> action, Param |-> param,
     Value |-> value, RocketType |-> rocketType]

NoDTO == ProcessMessageDTO("", 0, "", "", 0, "")

\* LunarMessage: the envelope of POST /messages; message holds the payload
\* keys that are present
LunarMessage(ch, num, messageType, message) ==
    [channel |-> ch, messageNumber |-> num, messageType |-> messageType,
     message |-> message]

\* msg.Message[key] when present, the zero value of the dto field otherwise
Field(message, key, zero) == IF key \in DOMAIN message THEN message[key] ELSE zero

\* convertLunarMessageToDTO for the five message types: ok is err == nil
convertLunarMessageToDTO(msg) ==
    LET m == msg.message
        dto(action, param, value, rocketType) ==
            [ok |-> TRUE,
             dto |-> ProcessMessageDTO(msg.channel, msg.messageNumber, action,
                                       param, value, rocketType)]
    IN CASE msg.messageType = "RocketLaunched" ->
              dto("launch", Field(m, "mission", ""), Field(m, "launchSpeed", 0),
                  Field(m, "type", ""))
         [] msg.messageType = "RocketSpeedIncreased" ->
              dto("increase_speed", "", Field(m, "by", 0), "")
         [] msg.messageType = "RocketSpeedDecreased" ->
              dto("decrease_speed", "", Field(m, "by", 0), "")
         [] msg.messageType = "RocketExploded" ->
              dto("explode", Field(m, "reason", ""), 0, "")
         [] msg.messageType = "RocketMissionChanged" ->
              dto("change_mission", Field(m, "newMission", ""), 0, "")
         [] OTHER -> [ok |-> FALSE, dto |-> NoDTO]

\* messageType and payload of the messages posted for channel R1, each under
\* every sequence number 1..MaxNum
Payloads ==
    { <<"RocketLaunched", [type |-> "Falcon-9", launchSpeed |-> 2, mission |-> "Exploration"]>>,
      <<"RocketSpeedIncreased", [by |-> -3]>>,
      <<"RocketSpeedDecreased", [by |-> 1]>>,
      <<"RocketExploded", [reason |-> "boom"]>>,
      <<"RocketMissionChanged", [newMission |-> "SATELLITE"]>> }

\* the messages posted for channel R2
OtherChannelMessages ==
    { LunarMessage("R2", 1, "RocketLaunched", [launchSpeed |-> 1, mission |-> "mars"]),
      LunarMessage("R2", 2, "RocketExploded", [reason |-> "boom"]) }

LunarMessages ==
    { LunarMessage("R1", n, p[1], p[2]) : n \in 1..MaxNum, p \in Payloads }
        \cup OtherChannelMessages

\* the dtos HandleMessages passes to Enqueue: the posted messages carry a
\* channel, a positive number and a time, so it enqueues the converted dto as is
Commands ==
    { convertLunarMessageToDTO(msg).dto :
        msg \in {m \in LunarMessages : convertLunarMessageToDTO(m).ok} }

\* ---------------------------------------------------------------- state
VARIABLES
    jobs,             \* WorkerPool.jobs: the buffered channel, oldest first
    sent,             \* number of Enqueue calls made, where a specification
                      \* bounds them
    pc,               \* per worker: "idle" | "call" | "direct" | "save" | "exited"
    job,              \* per worker: the dto of its ProcessMessage call
    expected,         \* per worker: ProcessMessage's local expected
    draining,         \* per worker: the call is inside the drain loop
    ret,              \* per worker: what its ProcessMessage call returned in the
                      \* step just taken ("" is nil), "none" when it returned nothing
    bufferMutex,      \* holder of RocketApplicationService.bufferMutex, or Free
    pendingMessages,  \* channel -> (message number -> dto)
    cache,            \* RocketRepository.cache: channel -> rocket
    events,           \* KafkaEventStore.events: channel -> sequence of events
    crashed,          \* the process died from an unrecovered panic
    script,           \* the payloads 1..N of the channel under test (SpecPerm)
    todo,             \* the sequence numbers of script not yet enqueued (SpecPerm)
    ctxDone,          \* WorkerPool.ctx is cancelled
    epc,              \* per caller: position in Enqueue, "idle" | "select" | "parked"
    edto,             \* per caller: the dto of its Enqueue call
    eret,             \* per caller: what its Enqueue call returned in the step
                      \* just taken ("" is nil), "none" when it returned nothing
    sendq,            \* the callers parked on a full jobs channel, oldest first
    waited,           \* main's Wait(): "no" | "waiting" | "returned"
    reply,            \* the result of the read operation run in the step just taken
    held,             \* per worker: the rocket processMessageDirect works on,
                      \* from its aggregate command to the end of Save
    reader            \* per reader: its GetRocket call inside GetByChannel after a
                      \* cache miss: its position, its channel and its rocket

\* the state of the pool's callers and of its shutdown
pool == <<ctxDone, epc, edto, sendq, waited>>

vars == <<jobs, sent, pc, job, expected, draining, ret, bufferMutex,
          pendingMessages, cache, events, crashed, script, todo,
          ctxDone, epc, edto, eret, sendq, waited, reply, held, reader>>

Free == "free"
NoReturn == [w \in Workers |-> "none"]
NoEnqueueReturn == [c \in Callers |-> "none"]
NoReply == [op |-> "none"]
NoRocket == [channel |-> ""]
NoReader == [pc |-> "idle"]
ErrStopped == "worker pool stopped"

\* a step in which no Enqueue call returns and no read operation runs
Quiet == eret' = NoEnqueueReturn /\ reply' = NoReply

\* no Enqueue call is in progress, the context is live, Wait() is not called
InitPool ==
    /\ ctxDone = FALSE
    /\ epc = [c \in Callers |-> "idle"]
    /\ edto = [c \in Callers |-> NoDTO]
    /\ eret = NoEnqueueReturn
    /\ sendq = <<>>
    /\ waited = "no"
    /\ reply = NoReply
    /\ held = [w \in Workers |-> NoRocket]
    /\ reader = [g \in Readers |-> NoReader]
EmptyMap == [x \in {} |-> x]

MapPut(f, k, v) == [x \in (DOMAIN f) \cup {k} |-> IF x = k THEN v ELSE f[x]]
MapDelete(f, k) == [x \in (DOMAIN f) \ {k} |-> f[x]]

\* --------------------------------------------------------- event store
\* KafkaEventStore.GetEventsByChannel
GetEventsByChannel(evs, ch) == IF ch \in DOMAIN evs THEN evs[ch] ELSE <<>>

\* AppendEvent putting the new event at the head of the channel's slice
AppendEventAtHead(evs, e) ==
    MapPut(evs, e.channel, <<e>> \o GetEventsByChannel(evs, e.channel))

\* AppendEvent making the new event the whole slice of the channel
AppendEventTruncating(evs, e) == MapPut(evs, e.channel, <<e>>)

\* KafkaEventStore.AppendEvent
AppendEvent(evs, e) == MapPut(evs, e.channel, Append(GetEventsByChannel(evs, e.channel), e))

\* KafkaEventStore.GetAllChannels
GetAllChannels(evs) == DOMAIN evs

\* ----------------------------------------------------------- repository
\* a GetByChannel whose rehydrated rocket lists the replayed events as
\* uncommitted
GetByChannelRecording(c, evs, ch) ==
    IF ch \in DOMAIN c THEN c
    ELSE MapPut(c, ch, [LoadFromHistory(NewRocket(ch), GetEventsByChannel(evs, ch))
                            EXCEPT !.uncommittedEvents = GetEventsByChannel(evs, ch)])

\* RocketRepository.GetByChannel: the cache after the call; the rocket
\* returned is the cache entry of the channel
GetByChannel(c, evs, ch) ==
    IF ch \in DOMAIN c THEN c
    ELSE MapPut(c, ch, LoadFromHistory(NewRocket(ch), GetEventsByChannel(evs, ch)))

RECURSIVE AppendAll(_, _)
\* the loop of RocketRepository.Save over GetUncommittedEvents
AppendAll(evs, list) ==
    IF list = <<>> THEN evs
    ELSE AppendAll(AppendEvent(evs, Head(list)), Tail(list))

\* a MarkEventsAsCommitted that leaves the list as it is
MarkEventsAsCommittedKeeps(r) == r

\* Rocket.MarkEventsAsCommitted
MarkEventsAsCommitted(r) == [r EXCEPT !.uncommittedEvents = <<>>]

\* a Save that stores the rocket and marks its events committed without
\* appending them
SaveCacheOnly(c, evs, rocket) ==
    [cache |-> MapPut(c, rocket.channel, MarkEventsAsCommitted(rocket)),
     events |-> evs]

\* RocketRepository.Save: the cache and the event store after the call
Save(c, evs, rocket) ==
    [cache |-> MapPut(c, rocket.channel, MarkEventsAsCommitted(rocket)),
     events |-> AppendAll(evs, rocket.uncommittedEvents)]

\* ------------------------------------------------------- ordering engine
\* the switch of processMessageDirect on dto.Action
Dispatch(rocket, dto) ==
    CASE dto.Action = "launch" ->
           Launch(rocket, dto.Number,
                  IF dto.RocketType = "" THEN "unknown" ELSE dto.RocketType,
                  NewSpeed(dto.Value), NewMission(dto.Param))
      [] dto.Action = "increase_speed" -> IncreaseSpeed(rocket, dto.Number, dto.Value)
      [] dto.Action = "decrease_speed" -> DecreaseSpeed(rocket, dto.Number, dto.Value)
      [] dto.Action = "explode" -> Explode(rocket, dto.Number, dto.Param)
      [] dto.Action = "change_mission" ->
           ChangeMission(rocket, dto.Number, NewMission(dto.Param))
      [] OTHER -> CmdErr(rocket, "unknown action")

\* a buffer path that stores the dto in the inner map of every channel
BufferPutAllChannels(pm, dto) ==
    [ch \in (DOMAIN pm) \cup {dto.Channel} |->
        MapPut(IF ch \in DOMAIN pm THEN pm[ch] ELSE EmptyMap, dto.Number, dto)]

\* a buffer path that makes a new inner map on every call
BufferPutFreshMap(pm, dto) ==
    MapPut(pm, dto.Channel, MapPut(EmptyMap, dto.Number, dto))

\* a classification that buffers whatever is not the expected number
ClassifyBuffersStale(number, exp) ==
    IF number = exp THEN "apply" ELSE "buffer"

\* a classification that applies the expected number and every later one
ClassifyAppliesFuture(number, exp) ==
    IF number >= exp THEN "apply" ELSE "stale"

\* a classification without the buffer path: whatever is not the expected
\* number is rejected
ClassifyRejectsFuture(number, exp) ==
    IF number = exp THEN "apply" ELSE "stale"

\* the three-way comparison of dto.Number with expected in ProcessMessage
Classify(number, exp) ==
    IF number = exp THEN "apply"
    ELSE IF number > exp THEN "buffer"
    ELSE "stale"

\* a buffer path that keeps the dto already stored under the number
BufferPutKeepsFirst(pm, dto) ==
    IF dto.Channel \in DOMAIN pm /\ dto.Number \in DOMAIN pm[dto.Channel]
    THEN pm
    ELSE MapPut(pm, dto.Channel,
                MapPut(IF dto.Channel \in DOMAIN pm THEN pm[dto.Channel] ELSE EmptyMap,
                       dto.Number, dto))

\* the buffer path of ProcessMessage: the inner map is made on first use and
\* the dto stored under its number
BufferPut(pm, dto) ==
    MapPut(pm, dto.Channel,
           MapPut(IF dto.Channel \in DOMAIN pm THEN pm[dto.Channel] ELSE EmptyMap,
                  dto.Number, dto))

\* a drain loop that looks two numbers ahead
NextNumSkipsOne(exp) == exp + 2

\* nextNum := expected + 1 of the drain loop
NextNum(exp) == exp + 1

\* the two break conditions of the drain loop, negated
HasBuffered(pm, ch, nextNum) == ch \in DOMAIN pm /\ nextNum \in DOMAIN pm[ch]

Init ==
    /\ jobs = <<>>
    /\ sent = 0
    /\ pc = [w \in Workers |-> "idle"]
    /\ job = [w \in Workers |-> NoDTO]
    /\ expected = [w \in Workers |-> 0]
    /\ draining = [w \in Workers |-> FALSE]
    /\ ret = NoReturn
    /\ bufferMutex = Free
    /\ pendingMessages = EmptyMap
    /\ cache = EmptyMap
    /\ events = EmptyMap
    /\ crashed = FALSE
    /\ script = <<>>
    /\ todo = {}
    /\ InitPool

\* WorkerPool.Enqueue: the send on jobs, possible while the channel has room
Send(dto) ==
    /\ ~crashed
    /\ Len(jobs) < JobsCapacity
    /\ jobs' = Append(jobs, dto)
    /\ sent' = sent + 1
    /\ ret' = NoReturn
    /\ Quiet
    /\ UNCHANGED <<pc, job, expected, draining, bufferMutex,
                   pendingMessages, cache, events, crashed, pool, held, reader>>

\* an Enqueue call of the intake with any message of Commands
Enqueue(dto) ==
    /\ sent < MaxMsgs
    /\ Send(dto)
    /\ UNCHANGED <<script, todo>>

\* the worker goroutine's receive from jobs; when a sender is parked on the
\* full channel the receive moves that sender's dto into the freed slot and
\* wakes it, and its Enqueue returns nil
WorkerReceive(w) ==
    /\ ~crashed
    /\ pc[w] = "idle"
    /\ jobs # <<>>
    /\ job' = [job EXCEPT ![w] = Head(jobs)]
    /\ pc' = [pc EXCEPT ![w] = "call"]
    /\ ret' = NoReturn
    /\ reply' = NoReply
    /\ IF sendq = <<>>
       THEN /\ jobs' = Tail(jobs)
            /\ eret' = NoEnqueueReturn
            /\ UNCHANGED <<epc, edto, sendq>>
       ELSE LET c == Head(sendq)
            IN /\ jobs' = Append(Tail(jobs), edto[c])
               /\ sendq' = Tail(sendq)
               /\ epc' = [epc EXCEPT ![c] = "idle"]
               /\ edto' = [edto EXCEPT ![c] = NoDTO]
               /\ eret' = [NoEnqueueReturn EXCEPT ![c] = ""]
    /\ UNCHANGED <<sent, expected, draining, bufferMutex, pendingMessages,
                   cache, events, crashed, script, todo, ctxDone, waited,
                   held, reader>>

\* a Lock that returns whoever holds the mutex
LockNoWait == TRUE

\* s.bufferMutex.Lock() can return: nobody holds the mutex
Lock == bufferMutex = Free

\* a return on which the deferred Unlock runs only when r is nil
ReturnLockedOnError(w, r) ==
    /\ pc' = [pc EXCEPT ![w] = "idle"]
    /\ job' = [job EXCEPT ![w] = NoDTO]
    /\ expected' = [expected EXCEPT ![w] = 0]
    /\ draining' = [draining EXCEPT ![w] = FALSE]
    /\ ret' = [NoReturn EXCEPT ![w] = r]
    /\ held' = [held EXCEPT ![w] = NoRocket]
    /\ bufferMutex' = IF r = "" THEN Free ELSE w

\* ProcessMessage returns r: the deferred Unlock runs, the worker logs the
\* outcome and goes back to its select
Return(w, r) ==
    /\ pc' = [pc EXCEPT ![w] = "idle"]
    /\ job' = [job EXCEPT ![w] = NoDTO]
    /\ expected' = [expected EXCEPT ![w] = 0]
    /\ draining' = [draining EXCEPT ![w] = FALSE]
    /\ ret' = [NoReturn EXCEPT ![w] = r]
    /\ held' = [held EXCEPT ![w] = NoRocket]
    /\ bufferMutex' = Free

\* ProcessMessage from Lock to the classification of dto.Number; the buffer
\* path and the stale path run to their return
ProcessMessage(w) ==
    /\ ~crashed
    /\ pc[w] = "call"
    /\ Lock
    /\ LET dto == job[w]
       IN IF ~NewChannelOk(dto.Channel)
          THEN /\ Return(w, "invalid channel")
               /\ UNCHANGED <<pendingMessages, cache>>
          ELSE LET c2 == GetByChannel(cache, events, dto.Channel)
                   exp == c2[dto.Channel].lastMessageNumber + 1
                   class == Classify(dto.Number, exp)
               IN /\ cache' = c2
                  /\ IF class = "apply"
                     THEN /\ pc' = [pc EXCEPT ![w] = "direct"]
                          /\ expected' = [expected EXCEPT ![w] = exp]
                          /\ bufferMutex' = w
                          /\ ret' = NoReturn
                          /\ UNCHANGED <<job, draining, pendingMessages, held>>
                     ELSE IF class = "buffer"
                     THEN /\ pendingMessages' = BufferPut(pendingMessages, dto)
                          /\ Return(w, "")
                     ELSE /\ Return(w, "already processed")
                          /\ UNCHANGED pendingMessages
    /\ Quiet
    /\ UNCHANGED <<jobs, sent, events, crashed, script, todo, pool, reader>>

\* the dto the current processMessageDirect call works on: the triggering
\* dto, or nextDTO of the drain loop
CurrentDTO(w) ==
    IF draining[w]
    THEN pendingMessages[job[w].Channel][NextNum(expected[w])]
    ELSE job[w]

\* processMessageDirect up to the aggregate command
ProcessMessageDirect(w) ==
    /\ ~crashed
    /\ pc[w] = "direct"
    /\ LET dto == CurrentDTO(w)
       IN IF ~NewChannelOk(dto.Channel)
          THEN /\ Return(w, "invalid channel")
               /\ UNCHANGED <<cache, crashed>>
          ELSE IF ~NewMessageNumberOk(dto.Number)
          THEN /\ Return(w, "invalid message number")
               /\ UNCHANGED <<cache, crashed>>
          ELSE LET c2 == GetByChannel(cache, events, dto.Channel)
                   res == Dispatch(c2[dto.Channel], dto)
               IN IF res.panic
                  THEN /\ crashed' = TRUE
                       /\ bufferMutex' = Free
                       /\ cache' = c2
                       /\ ret' = NoReturn
                       /\ UNCHANGED <<pc, job, expected, draining, held>>
                  ELSE IF res.err # ""
                  THEN /\ Return(w, res.err)
                       /\ cache' = [c2 EXCEPT ![dto.Channel] = res.rocket]
                       /\ UNCHANGED crashed
                  ELSE /\ cache' = [c2 EXCEPT ![dto.Channel] = res.rocket]
                       /\ held' = [held EXCEPT ![w] = res.rocket]
                       /\ pc' = [pc EXCEPT ![w] = "save"]
                       /\ ret' = NoReturn
                       /\ UNCHANGED <<job, expected, draining, bufferMutex, crashed>>
    /\ Quiet
    /\ UNCHANGED <<jobs, sent, pendingMessages, events, script, todo, pool, reader>>

\* repository.Save at the end of processMessageDirect; in the drain loop the
\* delete of the applied entry and expected = nextNum; then the loop's next
\* lookup, up to its processMessageDirect call or to return nil
SaveAndDrain(w) ==
    /\ ~crashed
    /\ pc[w] = "save"
    /\ LET ch == job[w].Channel
           s == Save(cache, events, held[w])
           exp == IF draining[w] THEN NextNum(expected[w]) ELSE expected[w]
           pm == IF draining[w]
                 THEN [pendingMessages EXCEPT ![ch] = MapDelete(@, NextNum(expected[w]))]
                 ELSE pendingMessages
       IN /\ cache' = s.cache
          /\ events' = s.events
          /\ pendingMessages' = pm
          /\ IF HasBuffered(pm, ch, NextNum(exp))
             THEN /\ pc' = [pc EXCEPT ![w] = "direct"]
                  /\ expected' = [expected EXCEPT ![w] = exp]
                  /\ draining' = [draining EXCEPT ![w] = TRUE]
                  /\ held' = [held EXCEPT ![w] = NoRocket]
                  /\ ret' = NoReturn
                  /\ UNCHANGED <<job, bufferMutex>>
             ELSE Return(w, "")
    /\ Quiet
    /\ UNCHANGED <<jobs, sent, crashed, script, todo, pool, reader>>

Next ==
    \/ \E dto \in Commands : Enqueue(dto)
    \/ \E w \in Workers : WorkerReceive(w)
    \/ \E w \in Workers : ProcessMessage(w)
    \/ \E w \in Workers : ProcessMessageDirect(w)
    \/ \E w \in Workers : SaveAndDrain(w)

Spec == Init /\ [][Next]_vars

\* ------------------------------- each command of a channel exactly once
\* the payloads a script may hold
ScriptPayloads ==
    Payloads \cup { <<"RocketSpeedIncreased", [by |-> 4]>>,
                    <<"RocketLaunched", [launchSpeed |-> -1, mission |-> "mars"]>> }

\* command n of script sc, on channel R1
ScriptDTO(sc, n) == convertLunarMessageToDTO(LunarMessage("R1", n, sc[n][1], sc[n][2])).dto

RECURSIVE InOrder(_, _, _)
\* in-order delivery of commands n..Len(sc): each is applied by the switch of
\* processMessageDirect and saved before the next one arrives
InOrder(st, sc, n) ==
    IF n > Len(sc) \/ ~st.ok THEN st
    ELSE LET res == Dispatch(st.rocket, ScriptDTO(sc, n))
         IN IF res.panic \/ res.err # ""
            THEN [st EXCEPT !.ok = FALSE]
            ELSE InOrder([ok |-> TRUE,
                          rocket |-> MarkEventsAsCommitted(res.rocket),
                          log |-> st.log \o res.rocket.uncommittedEvents], sc, n + 1)

InOrderResult(sc) == InOrder([ok |-> TRUE, rocket |-> NewRocket("R1"), log |-> <<>>], sc, 1)

\* every command of sc is valid when applied in sequence order
ValidScript(sc) == InOrderResult(sc).ok

InitPerm ==
    /\ jobs = <<>>
    /\ sent = 0
    /\ pc = [w \in Workers |-> "idle"]
    /\ job = [w \in Workers |-> NoDTO]
    /\ expected = [w \in Workers |-> 0]
    /\ draining = [w \in Workers |-> FALSE]
    /\ ret = NoReturn
    /\ bufferMutex = Free
    /\ pendingMessages = EmptyMap
    /\ cache = EmptyMap
    /\ events = EmptyMap
    /\ crashed = FALSE
    /\ script \in {sc \in [1..PermLen -> ScriptPayloads] : ValidScript(sc)}
    /\ todo = 1..PermLen
    /\ InitPool

\* the Enqueue call for command n of the script, made once
EnqueueScript(n) ==
    /\ n \in todo
    /\ Send(ScriptDTO(script, n))
    /\ todo' = todo \ {n}
    /\ UNCHANGED script

NextPerm ==
    \/ \E n \in 1..PermLen : EnqueueScript(n)
    \/ \E w \in Workers : WorkerReceive(w)
    \/ \E w \in Workers : ProcessMessage(w)
    \/ \E w \in Workers : ProcessMessageDirect(w)
    \/ \E w \in Workers : SaveAndDrain(w)

SpecPerm == InitPerm /\ [][NextPerm]_vars

\* -------------------- a script on R1 beside any traffic on the other channel
\* the payloads a script of SpecIso may hold
IsoPayloads ==
    { p \in Payloads : p[1] \in {"RocketLaunched", "RocketSpeedIncreased", "RocketExploded"} }

\* an Enqueue call with a message of the other channel
EnqueueOther(dto) ==
    /\ dto.Channel # "R1"
    /\ sent - (Len(script) - Cardinality(todo)) < MaxOther
    /\ Send(dto)
    /\ UNCHANGED <<script, todo>>

InitIso ==
    /\ jobs = <<>>
    /\ sent = 0
    /\ pc = [w \in Workers |-> "idle"]
    /\ job = [w \in Workers |-> NoDTO]
    /\ expected = [w \in Workers |-> 0]
    /\ draining = [w \in Workers |-> FALSE]
    /\ ret = NoReturn
    /\ bufferMutex = Free
    /\ pendingMessages = EmptyMap
    /\ cache = EmptyMap
    /\ events = EmptyMap
    /\ crashed = FALSE
    /\ script \in {sc \in [1..IsoLen -> IsoPayloads] : ValidScript(sc)}
    /\ todo = 1..IsoLen
    /\ InitPool

NextIso ==
    \/ \E n \in 1..IsoLen : EnqueueScript(n)
    \/ \E dto \in Commands : EnqueueOther(dto)
    \/ \E w \in Workers : WorkerReceive(w)
    \/ \E w \in Workers : ProcessMessage(w)
    \/ \E w \in Workers : ProcessMessageDirect(w)
    \/ \E w \in Workers : SaveAndDrain(w)

SpecIso == InitIso /\ [][NextIso]_vars

\* ------------------------------------------ the pool: Enqueue and shutdown
\* the engine and the workers take no step of their own
EngineIdle ==
    /\ ret' = NoReturn
    /\ reply' = NoReply
    /\ UNCHANGED <<pc, job, expected, draining, bufferMutex, pendingMessages,
                   cache, events, crashed, script, todo, held, reader>>

\* caller c's Enqueue call returns r
EnqueueReturn(c, r) ==
    /\ epc' = [epc EXCEPT ![c] = "idle"]
    /\ edto' = [edto EXCEPT ![c] = NoDTO]
    /\ eret' = [NoEnqueueReturn EXCEPT ![c] = r]

\* WorkerPool.Enqueue up to the end of its first select: Stopped when the
\* context is already cancelled
EnqueueCheck(c, dto) ==
    /\ ~crashed
    /\ epc[c] = "idle"
    /\ IF ctxDone
       THEN EnqueueReturn(c, ErrStopped)
       ELSE /\ epc' = [epc EXCEPT ![c] = "select"]
            /\ edto' = [edto EXCEPT ![c] = dto]
            /\ eret' = NoEnqueueReturn
    /\ EngineIdle
    /\ UNCHANGED <<jobs, ctxDone, sendq, waited>>

\* a second select that sends whether or not the channel has room
EnqueueSelectUnbounded(c) ==
    /\ ~crashed
    /\ epc[c] = "select"
    /\ jobs' = Append(jobs, edto[c])
    /\ EnqueueReturn(c, "")
    /\ EngineIdle
    /\ UNCHANGED <<sent, ctxDone, sendq, waited>>

\* the second select of WorkerPool.Enqueue: the send when jobs has room, the
\* Done case when the context is cancelled, either one when both can proceed,
\* and parking on the full channel when none can
EnqueueSelect(c) ==
    /\ ~crashed
    /\ epc[c] = "select"
    /\ \/ /\ Len(jobs) < JobsCapacity
          /\ jobs' = Append(jobs, edto[c])
          /\ EnqueueReturn(c, "")
          /\ UNCHANGED sendq
       \/ /\ ctxDone
          /\ EnqueueReturn(c, ErrStopped)
          /\ UNCHANGED <<jobs, sendq>>
       \/ /\ Len(jobs) >= JobsCapacity
          /\ ~ctxDone
          /\ epc' = [epc EXCEPT ![c] = "parked"]
          /\ sendq' = Append(sendq, c)
          /\ eret' = NoEnqueueReturn
          /\ UNCHANGED <<jobs, edto>>
    /\ EngineIdle
    /\ UNCHANGED <<sent, ctxDone, waited>>

\* main's workerCancel(): the Done channel is closed, which wakes every
\* caller parked in the second select with the Done case
Cancel ==
    /\ ~crashed
    /\ ~ctxDone
    /\ ctxDone' = TRUE
    /\ epc' = [c \in Callers |-> IF epc[c] = "parked" THEN "idle" ELSE epc[c]]
    /\ edto' = [c \in Callers |-> IF epc[c] = "parked" THEN NoDTO ELSE edto[c]]
    /\ eret' = [c \in Callers |-> IF epc[c] = "parked" THEN ErrStopped ELSE "none"]
    /\ sendq' = <<>>
    /\ EngineIdle
    /\ UNCHANGED <<jobs, sent, waited>>

\* a worker goroutine that returns on the signal wherever it is
WorkerExitAnywhere(w) ==
    /\ ~crashed
    /\ pc[w] # "exited"
    /\ ctxDone
    /\ pc' = [pc EXCEPT ![w] = "exited"]
    /\ ret' = NoReturn
    /\ Quiet
    /\ UNCHANGED <<jobs, sent, job, expected, draining, bufferMutex,
                   pendingMessages, cache, events, crashed, script, todo, pool,
                   held, reader>>

\* the Done case of the worker's select: the goroutine returns (wg.Done)
WorkerExit(w) ==
    /\ ~crashed
    /\ pc[w] = "idle"
    /\ ctxDone
    /\ pc' = [pc EXCEPT ![w] = "exited"]
    /\ ret' = NoReturn
    /\ Quiet
    /\ UNCHANGED <<jobs, sent, job, expected, draining, bufferMutex,
                   pendingMessages, cache, events, crashed, script, todo, pool,
                   held, reader>>

\* WorkerPool.Wait, called by main after workerCancel: wg.Wait returns when
\* every worker goroutine has run wg.Done
Wait ==
    /\ ~crashed
    /\ ctxDone
    /\ waited = "no"
    /\ \A w \in Workers : pc[w] = "exited"
    /\ waited' = "returned"
    /\ EngineIdle
    /\ Quiet
    /\ UNCHANGED <<jobs, sent, ctxDone, epc, edto, sendq>>

\* the one dto the callers of SpecPool enqueue
PoolDTO == ProcessMessageDTO("R1", 1, "launch", "mars", 2, "")

\* an Enqueue call of SpecPool
EnqueuePool(c) ==
    /\ EnqueueCheck(c, PoolDTO)
    /\ UNCHANGED sent

NextPool ==
    \/ \E c \in Callers : EnqueuePool(c)
    \/ \E c \in Callers : EnqueueSelect(c)
    \/ Cancel
    \/ \E w \in Workers : WorkerReceive(w)
    \/ \E w \in Workers : ProcessMessage(w)
    \/ \E w \in Workers : ProcessMessageDirect(w)
    \/ \E w \in Workers : SaveAndDrain(w)
    \/ \E w \in Workers : WorkerExit(w)
    \/ Wait

\* any number of Enqueue calls with one dto, shutdown at any moment
SpecPool == Init /\ [][NextPool]_vars

\* ----------------- dtos handed to the pool by direct callers of the service
\* a valid launch under the numbers 0..MaxNum, an action outside the switch of
\* processMessageDirect, a launch with a negative speed, and an empty and a
\* blank channel
DirectCommands ==
    { ProcessMessageDTO("R1", n, "launch", "mars", 2, "") : n \in 0..MaxNum }
        \cup { ProcessMessageDTO("R1", n, "warp", "", 0, "") : n \in 1..MaxNum }
        \cup { ProcessMessageDTO("R1", n, "launch", "mars", -1, "") : n \in 1..MaxNum }
        \cup { ProcessMessageDTO(ch, 1, "launch", "mars", 2, "") : ch \in {"", " "} }

NextDirect ==
    \/ \E dto \in DirectCommands : Enqueue(dto)
    \/ \E w \in Workers : WorkerReceive(w)
    \/ \E w \in Workers : ProcessMessage(w)
    \/ \E w \in Workers : ProcessMessageDirect(w)
    \/ \E w \in Workers : SaveAndDrain(w)

SpecDirect == Init /\ [][NextDirect]_vars

\* ------------------------------------- shutdown with the workers scheduled
\* the dtos in flight at shutdown: a valid launch, an action outside the
\* switch and a launch with a negative speed, each as number 1 of R1
ShutdownCommands == { dto \in DirectCommands : dto.Channel = "R1" /\ dto.Number = 1 }

\* one of at most MaxMsgs Enqueue calls
EnqueueShutdown(c, dto) ==
    /\ sent < MaxMsgs
    /\ EnqueueCheck(c, dto)
    /\ sent' = sent + 1

\* the steps of worker goroutine w
WorkerStep(w) ==
    \/ WorkerReceive(w)
    \/ ProcessMessage(w)
    \/ ProcessMessageDirect(w)
    \/ SaveAndDrain(w)
    \/ WorkerExit(w)

NextShutdown ==
    \/ \E c \in Callers : \E dto \in ShutdownCommands : EnqueueShutdown(c, dto)
    \/ \E c \in Callers : EnqueueSelect(c)
    \/ Cancel
    \/ \E w \in Workers : WorkerReceive(w)
    \/ \E w \in Workers : ProcessMessage(w)
    \/ \E w \in Workers : ProcessMessageDirect(w)
    \/ \E w \in Workers : SaveAndDrain(w)
    \/ \E w \in Workers : WorkerExit(w)
    \/ Wait

\* every worker goroutine that can run is scheduled, and so is main, which
\* sits in Wait after workerCancel
SpecShutdown ==
    /\ Init
    /\ [][NextShutdown]_vars
    /\ \A w \in Workers : WF_vars(WorkerStep(w))
    /\ WF_vars(Wait)

\* ------------------------------------------------------ read operations
RECURSIVE MapOrders(_)
\* the orders in which a range over a Go map visits the keys S, each once
MapOrders(S) ==
    IF S = {} THEN {<<>>}
    ELSE UNION { { <<k>> \o t : t \in MapOrders(S \ {k}) } : k \in S }

\* the RocketDTO built by GetRocket and ListRockets
RocketDTO(r) ==
    [Channel |-> r.channel, Type |-> r.rocketType, Status |-> r.status,
     Speed |-> r.speed, Mission |-> r.mission]

RECURSIVE GetEach(_, _, _)
\* the cache after GetByChannel was called for each of channels in turn
GetEach(c, evs, channels) ==
    IF channels = <<>> THEN c
    ELSE GetEach(GetByChannel(c, evs, Head(channels)), evs, Tail(channels))

\* RocketRepository.GetAll over the channels as GetAllChannels returned
\* them: the cache after the loop and the rockets appended, invalid channels
\* skipped
GetAll(c, evs, channels) ==
    LET valid == SelectSeq(channels, NewChannelOk)
        c2 == GetEach(c, evs, valid)
    IN [cache |-> c2, rockets |-> [i \in 1..Len(valid) |-> c2[valid[i]]]]

\* a read operation ends with the cache c2 and the result r; it takes no
\* part in the engine or the pool
ReadStep(c2, r) ==
    /\ ~crashed
    /\ cache' = c2
    /\ reply' = r
    /\ ret' = NoReturn
    /\ eret' = NoEnqueueReturn
    /\ UNCHANGED <<jobs, sent, pc, job, expected, draining, bufferMutex,
                   pendingMessages, events, crashed, script, todo, pool,
                   held, reader>>

\* RocketApplicationService.GetRocket
GetRocket(channelStr) ==
    IF ~NewChannelOk(channelStr)
    THEN ReadStep(cache, [op |-> "GetRocket", channel |-> channelStr,
                          err |-> "channel cannot be empty"])
    ELSE LET c2 == GetByChannel(cache, events, channelStr)
         IN ReadStep(c2, [op |-> "GetRocket", channel |-> channelStr, err |-> "",
                          dto |-> RocketDTO(c2[channelStr])])

\* a ListRockets that ranges over the repository's cache
ListRocketsFromCache ==
    \E channels \in MapOrders(DOMAIN cache) :
        LET all == GetAll(cache, events, channels)
        IN ReadStep(all.cache,
                    [op |-> "ListRockets",
                     dtos |-> [i \in 1..Len(all.rockets) |-> RocketDTO(all.rockets[i])]])

\* RocketApplicationService.ListRockets
ListRockets ==
    \E channels \in MapOrders(GetAllChannels(events)) :
        LET all == GetAll(cache, events, channels)
        IN ReadStep(all.cache,
                    [op |-> "ListRockets",
                     dtos |-> [i \in 1..Len(all.rockets) |-> RocketDTO(all.rockets[i])]])

\* RocketApplicationService.GetBufferStatus: under bufferMutex, one entry per
\* key of pendingMessages, the numbers in the order the inner map yields them
GetBufferStatus ==
    /\ Lock
    /\ \E channels \in MapOrders(DOMAIN pendingMessages) :
       \E numbers \in [DOMAIN pendingMessages ->
                          UNION { MapOrders(DOMAIN pendingMessages[ch]) :
                                    ch \in DOMAIN pendingMessages }] :
          /\ \A ch \in DOMAIN pendingMessages :
                 numbers[ch] \in MapOrders(DOMAIN pendingMessages[ch])
          /\ LET c2 == GetEach(cache, events, channels)
             IN ReadStep(c2,
                    [op |-> "GetBufferStatus",
                     status |-> [i \in 1..Len(channels) |->
                        [Channel |-> channels[i],
                         ExpectedNext |-> c2[channels[i]].lastMessageNumber + 1,
                         BufferedMessages |-> numbers[channels[i]]]]])

\* the commands posted while the read operations run: the launches of R1 and
\* the commands of R2
ReadCommands == { dto \in Commands : dto.Action = "launch" \/ dto.Channel = "R2" }

\* the channels GetRocket is asked for: those of the commands, one that no
\* command names and the empty one
ReadChannels == ChannelNames \cup {"R3", ""}

NextRead ==
    \/ \E dto \in ReadCommands : Enqueue(dto)
    \/ \E w \in Workers : WorkerReceive(w)
    \/ \E w \in Workers : ProcessMessage(w)
    \/ \E w \in Workers : ProcessMessageDirect(w)
    \/ \E w \in Workers : SaveAndDrain(w)
    \/ \E channelStr \in ReadChannels : GetRocket(channelStr)
    \/ ListRockets
    \/ GetBufferStatus

SpecRead == Init /\ [][NextRead]_vars

\* ----------------------------------------------- readers of the event log
\* the Details string of an EventDTO, as the fields Sprintf prints
EventDetails(ev) ==
    CASE ev.type = "rocket_launched" -> <<"mission", ev.mission, "speed", ev.speed>>
      [] ev.type = "rocket_speed_increased" -> <<"delta", ev.delta, "newSpeed", ev.newSpeed>>
      [] ev.type = "rocket_speed_decreased" -> <<"delta", ev.delta, "newSpeed", ev.newSpeed>>
      [] ev.type = "rocket_mission_changed" -> <<"mission", ev.newMission>>
      [] ev.type = "rocket_exploded" -> <<"reason", ev.reason>>
      [] OTHER -> <<>>

\* the EventDTO ListEvents builds for an event
EventDTO(ev) ==
    [Type |-> ev.type, MessageNumber |-> ev.messageNumber, Details |-> EventDetails(ev)]

\* RocketApplicationService.ListEvents: the copy GetEventsByChannel returns
\* under the store's read lock, converted event by event
ListEvents(channelStr) ==
    IF ~NewChannelOk(channelStr)
    THEN ReadStep(cache, [op |-> "ListEvents", channel |-> channelStr,
                          err |-> "channel cannot be empty"])
    ELSE LET evs == GetEventsByChannel(events, channelStr)
         IN ReadStep(cache, [op |-> "ListEvents", channel |-> channelStr, err |-> "",
                             dtos |-> [i \in 1..Len(evs) |-> EventDTO(evs[i])]])

\* the commands posted while the log is read: launches and explosions
LogCommands == { dto \in Commands : dto.Action \in {"launch", "explode"} }

NextLog ==
    \/ \E dto \in LogCommands : Enqueue(dto)
    \/ \E w \in Workers : WorkerReceive(w)
    \/ \E w \in Workers : ProcessMessage(w)
    \/ \E w \in Workers : ProcessMessageDirect(w)
    \/ \E w \in Workers : SaveAndDrain(w)
    \/ \E channelStr \in ReadChannels : ListEvents(channelStr)

SpecLog == Init /\ [][NextLog]_vars

\* ------------------------------------------- runs of buffered commands
\* the command of R1 under number n: the launch under 1, a speed increase
\* under every other number, so that 1..DrainLen is valid in order
DrainCommand(n) ==
    convertLunarMessageToDTO(
        IF n = 1
        THEN LunarMessage("R1", n, "RocketLaunched",
                          [type |-> "Falcon-9", launchSpeed |-> 2, mission |-> "Exploration"])
        ELSE LunarMessage("R1", n, "RocketSpeedIncreased", [by |-> 1])).dto

NextDrain ==
    \/ \E n \in 1..DrainLen : Enqueue(DrainCommand(n))
    \/ \E w \in Workers : WorkerReceive(w)
    \/ \E w \in Workers : ProcessMessage(w)
    \/ \E w \in Workers : ProcessMessageDirect(w)
    \/ \E w \in Workers : SaveAndDrain(w)

SpecDrain == Init /\ [][NextDrain]_vars

\* ------------------------------ re-delivery of commands not yet applied
\* the launches and explosions of R1 under every number
DupCommands == { dto \in Commands : dto.Channel = "R1" /\ dto.Action \in {"launch", "explode"} }

NextDup ==
    \/ \E dto \in DupCommands : Enqueue(dto)
    \/ \E w \in Workers : WorkerReceive(w)
    \/ \E w \in Workers : ProcessMessage(w)
    \/ \E w \in Workers : ProcessMessageDirect(w)
    \/ \E w \in Workers : SaveAndDrain(w)

SpecDup == Init /\ [][NextDup]_vars

\* ------------------------------- GetRocket step by step, without the lock
\* a step of reader g's GetRocket call: the cache becomes c2, the call moves
\* to position rd, and r is what it returns in this step
ReaderStep(g, c2, rd, r) ==
    /\ ~crashed
    /\ cache' = c2
    /\ reader' = [reader EXCEPT ![g] = rd]
    /\ reply' = r
    /\ ret' = NoReturn
    /\ eret' = NoEnqueueReturn
    /\ UNCHANGED <<jobs, sent, pc, job, expected, draining, bufferMutex,
                   pendingMessages, events, crashed, script, todo, pool, held>>

\* GetRocket up to r.cache.Load in GetByChannel: on a hit it returns the
\* cached rocket's dto, on a miss the call goes on
GetRocketLoad(g, channelStr) ==
    /\ reader[g] = NoReader
    /\ IF ~NewChannelOk(channelStr)
       THEN ReaderStep(g, cache, NoReader,
                       [op |-> "GetRocket", channel |-> channelStr,
                        err |-> "channel cannot be empty"])
       ELSE IF channelStr \in DOMAIN cache
       THEN ReaderStep(g, cache, NoReader,
                       [op |-> "GetRocket", channel |-> channelStr, err |-> "",
                        dto |-> RocketDTO(cache[channelStr])])
       ELSE ReaderStep(g, cache, [pc |-> "missed", channel |-> channelStr], NoReply)

\* GetByChannel after the miss: NewRocket, GetEventsByChannel, LoadFromHistory
GetRocketReplay(g) ==
    /\ reader[g].pc = "missed"
    /\ ReaderStep(g, cache,
                  [pc |-> "built", channel |-> reader[g].channel,
                   rocket |-> LoadFromHistory(NewRocket(reader[g].channel),
                                              GetEventsByChannel(events, reader[g].channel))],
                  NoReply)

\* r.cache.Store of GetByChannel, whatever the cache holds by now, and the
\* return of GetRocket
GetRocketStore(g) ==
    /\ reader[g].pc = "built"
    /\ ReaderStep(g, MapPut(cache, reader[g].channel, reader[g].rocket), NoReader,
                  [op |-> "GetRocket", channel |-> reader[g].channel, err |-> "",
                   dto |-> RocketDTO(reader[g].rocket)])

\* the first commands of R1, delivered any number of times
RaceCommands ==
    { dto \in Commands : /\ dto.Channel = "R1"
                         /\ dto.Number = 1
                         /\ dto.Action \in {"launch", "increase_speed"} }

\* the channels the racing GetRocket calls ask for
RaceChannels == {"R1", ""}

NextRace ==
    \/ \E dto \in RaceCommands : Enqueue(dto)
    \/ \E w \in Workers : WorkerReceive(w)
    \/ \E w \in Workers : ProcessMessage(w)
    \/ \E w \in Workers : ProcessMessageDirect(w)
    \/ \E w \in Workers : SaveAndDrain(w)
    \/ \E g \in Readers : \E channelStr \in RaceChannels : GetRocketLoad(g, channelStr)
    \/ \E g \in Readers : GetRocketReplay(g)
    \/ \E g \in Readers : GetRocketStore(g)

\* commands processed while GetRocket calls run beside the workers
SpecRace == Init /\ [][NextRace]_vars

\* ------------------------------------- shutdown while runs are drained
NextStop ==
    \/ \E c \in Callers : \E dto \in DupCommands : EnqueueShutdown(c, dto)
    \/ \E c \in Callers : EnqueueSelect(c)
    \/ Cancel
    \/ \E w \in Workers : WorkerReceive(w)
    \/ \E w \in Workers : ProcessMessage(w)
    \/ \E w \in Workers : ProcessMessageDirect(w)
    \/ \E w \in Workers : SaveAndDrain(w)
    \/ \E w \in Workers : WorkerExit(w)
    \/ Wait

\* launches and explosions of R1 in any order, shutdown at any moment
SpecStop == Init /\ [][NextStop]_vars

\* --------------------------- the pool at work, shutdown never signalled
NextLive ==
    \/ \E c \in Callers : \E dto \in ShutdownCommands : EnqueueShutdown(c, dto)
    \/ \E c \in Callers : EnqueueSelect(c)
    \/ \E w \in Workers : WorkerReceive(w)
    \/ \E w \in Workers : ProcessMessage(w)
    \/ \E w \in Workers : ProcessMessageDirect(w)
    \/ \E w \in Workers : SaveAndDrain(w)

\* every worker goroutine that can run is scheduled; main never calls
\* workerCancel
SpecLive ==
    /\ Init
    /\ [][NextLive]_vars
    /\ \A w \in Workers : WF_vars(WorkerStep(w))

\* ------------------ the full queue beside the workers and GetBufferStatus
NextBusy ==
    \/ \E c \in Callers : EnqueuePool(c)
    \/ \E c \in Callers : EnqueueSelect(c)
    \/ \E w \in Workers : WorkerReceive(w)
    \/ \E w \in Workers : ProcessMessage(w)
    \/ \E w \in Workers : ProcessMessageDirect(w)
    \/ \E w \in Workers : SaveAndDrain(w)
    \/ GetBufferStatus

\* any number of Enqueue calls with one dto and of GetBufferStatus calls,
\* shutdown never signalled
SpecBusy == Init /\ [][NextBusy]_vars

\* --------------------------------- commands for a channel that exploded
\* an explosion of R1 under number 1 or 2 and later commands under the numbers
\* up to DrainLen
ExplodedCommands ==
    { convertLunarMessageToDTO(msg).dto :
        msg \in { LunarMessage("R1", n, "RocketExploded", [reason |-> "boom"]) : n \in 1..2 }
                  \cup { LunarMessage("R1", n, "RocketSpeedIncreased", [by |-> 1]) :
                            n \in 2..DrainLen }
                  \cup { LunarMessage("R1", n, "RocketMissionChanged",
                                       [newMission |-> "SATELLITE"]) : n \in 2..DrainLen } }

NextExploded ==
    \/ \E dto \in ExplodedCommands : Enqueue(dto)
    \/ \E w \in Workers : WorkerReceive(w)
    \/ \E w \in Workers : ProcessMessage(w)
    \/ \E w \in Workers : ProcessMessageDirect(w)
    \/ \E w \in Workers : SaveAndDrain(w)

SpecExploded == Init /\ [][NextExploded]_vars

\* ------------------------------------- rehydration from any stored log
\* the events a log of R1 may hold, in any order and under any number: the
\* replay takes whatever the store returns
ReplayEvents ==
    { RocketLaunched("R1", n, "Falcon-9", 2, MissionExploration) : n \in 1..MaxNum }
        \cup { RocketSpeedIncreased("R1", n, 5, 3) : n \in 1..MaxNum }
        \cup { RocketSpeedDecreased("R1", n, 1, 1) : n \in 1..MaxNum }
        \cup { RocketExploded("R1", n, "boom") : n \in 1..MaxNum }
        \cup { RocketMissionChanged("R1", n, MissionSatellite) : n \in 1..MaxNum }

\* the logs of at most HistLen events
ReplayLogs == UNION { [1..k -> ReplayEvents] : k \in 0..HistLen }

\* the store holds some log of R1 and the repository's cache is empty
InitReplay ==
    /\ jobs = <<>>
    /\ sent = 0
    /\ pc = [w \in Workers |-> "idle"]
    /\ job = [w \in Workers |-> NoDTO]
    /\ expected = [w \in Workers |-> 0]
    /\ draining = [w \in Workers |-> FALSE]
    /\ ret = NoReturn
    /\ bufferMutex = Free
    /\ pendingMessages = EmptyMap
    /\ cache = EmptyMap
    /\ \E log \in ReplayLogs :
          events = IF log = <<>> THEN EmptyMap ELSE MapPut(EmptyMap, "R1", log)
    /\ crashed = FALSE
    /\ script = <<>>
    /\ todo = {}
    /\ InitPool

\* RocketRepository.Save called with the rocket GetByChannel returns for ch
SaveRocket(ch) ==
    LET c2 == GetByChannel(cache, events, ch)
        s == Save(c2, events, c2[ch])
    IN /\ ~crashed
       /\ cache' = s.cache
       /\ events' = s.events
       /\ reply' = [op |-> "Save", channel |-> ch]
       /\ ret' = NoReturn
       /\ eret' = NoEnqueueReturn
       /\ UNCHANGED <<jobs, sent, pc, job, expected, draining, bufferMutex,
                      pendingMessages, crashed, script, todo, pool, held, reader>>

NextReplay ==
    \/ \E channelStr \in ChannelNames : GetRocket(channelStr)
    \/ \E ch \in ChannelNames : SaveRocket(ch)

\* GetByChannel and Save over any stored log
SpecReplay == InitReplay /\ [][NextReplay]_vars

\* ------------------------------------------------------------ properties
\* what GetByChannel returns for ch in the current state
RocketOf(ch) == GetByChannel(cache, events, ch)[ch]

LastOf(c, ch) == IF ch \in DOMAIN c THEN c[ch].lastMessageNumber ELSE 0

\* the snapshot of a rocket: status, speed, mission, type, lastMessageNumber
Snapshot(r) == <<r.status, r.speed, r.mission, r.rocketType, r.lastMessageNumber>>

PermDone == todo = {} /\ jobs = <<>> /\ \A w \in Workers : pc[w] = "idle"

\* C3: when the commands 1..N of a channel, each valid in sequence order,
\* arrive once each in any order over the workers, every ProcessMessage call
\* returns nil and, once all have returned, the rocket, its lastMessageNumber
\* N, the event log and the empty buffer are those of in-order delivery.
C3_AnyArrivalOrderEqualsInOrder ==
    /\ ~crashed
    /\ \A w \in Workers : ret[w] \in {"none", ""}
    /\ PermDone =>
          LET ref == InOrderResult(script)
          IN /\ "R1" \in DOMAIN cache
             /\ cache["R1"] = ref.rocket
             /\ cache["R1"].lastMessageNumber = Len(script)
             /\ GetEventsByChannel(events, "R1") = ref.log
             /\ ("R1" \in DOMAIN pendingMessages => DOMAIN pendingMessages["R1"] = {})

\* C3 witness: all commands were delivered and applied, and some of them had
\* arrived early (the channel's inner buffer map was made and is drained)
C3_Witness ==
    /\ PermDone
    /\ "R1" \in DOMAIN pendingMessages
    /\ DOMAIN pendingMessages["R1"] = {}
    /\ Len(GetEventsByChannel(events, "R1")) = Len(script)
    /\ \E w \in Workers : ret[w] = ""

\* C4: a ProcessMessage call whose number is at most the channel's
\* lastMessageNumber returns the already-processed error and leaves the
\* cache, the event store and the pending buffer as they were.
C4_StaleIsRejectedWithoutEffect ==
    [][\A w \in Workers :
          ( /\ pc[w] = "call"
            /\ pc'[w] # "call"
            /\ NewChannelOk(job[w].Channel)
            /\ job[w].Number <= RocketOf(job[w].Channel).lastMessageNumber )
          => /\ pc'[w] = "idle"
             /\ ret'[w] = "already processed"
             /\ cache' = cache
             /\ events' = events
             /\ pendingMessages' = pendingMessages]_vars

\* C4 witness: a re-delivery was rejected on a channel that has an applied
\* event and a buffered command
C4_Witness ==
    /\ \E w \in Workers : ret[w] = "already processed"
    /\ Len(GetEventsByChannel(events, "R1")) >= 1
    /\ "R1" \in DOMAIN pendingMessages
    /\ DOMAIN pendingMessages["R1"] # {}

\* the entry of ch in a map, or the empty tuple when ch has none
Entry(f, ch) == IF ch \in DOMAIN f THEN <<f[ch]>> ELSE <<>>

\* C5: a step of a ProcessMessage call changes the rocket, the event log and
\* the pending buffer of no channel but its own, and once the commands of R1
\* have all returned, R1's rocket, log and buffer are those of in-order
\* delivery of R1's commands alone, whatever was processed for R2 and however
\* it was interleaved.
C5_ChannelsAreIndependent ==
    /\ [][\A w \in Workers :
             (pc[w] # "idle" /\ pc'[w] # pc[w]) =>
                 \A ch \in ChannelNames \ {job[w].Channel} :
                     /\ Entry(cache', ch) = Entry(cache, ch)
                     /\ Entry(events', ch) = Entry(events, ch)
                     /\ Entry(pendingMessages', ch) = Entry(pendingMessages, ch)]_vars
    /\ [](PermDone =>
             LET ref == InOrderResult(script)
             IN /\ Entry(cache, "R1") = <<ref.rocket>>
                /\ GetEventsByChannel(events, "R1") = ref.log
                /\ ("R1" \in DOMAIN pendingMessages => DOMAIN pendingMessages["R1"] = {}))

\* C5 witness: R1's commands are all applied while R2 has an applied event
\* and a buffer of its own
C5_Witness ==
    /\ PermDone
    /\ Len(GetEventsByChannel(events, "R1")) = Len(script)
    /\ Len(GetEventsByChannel(events, "R2")) >= 1
    /\ "R2" \in DOMAIN pendingMessages
    /\ "R1" \in DOMAIN pendingMessages

C8_SpeedNeverNegative ==
    \A ch \in DOMAIN cache : cache[ch].speed >= 0

\* a step in which a Launch command is applied to the rocket of ch
LaunchApplied(ch) ==
    /\ ch \in DOMAIN cache
    /\ Len(cache'[ch].uncommittedEvents) > Len(cache[ch].uncommittedEvents)
    /\ cache'[ch].uncommittedEvents[Len(cache'[ch].uncommittedEvents)].type
         = "rocket_launched"

\* C9: a Launch command is applied only to a rocket in status Launched that
\* has no applied event (lastMessageNumber = 0), and a Launch dispatched to a
\* rocket that has left status Launched returns the already-launched error
\* and changes neither the cache nor the event store.
C9_LaunchOnlyAsFirstEvent ==
    [][/\ \A ch \in ChannelNames :
             LaunchApplied(ch) =>
                 /\ cache[ch].status = StatusLaunched
                 /\ cache[ch].lastMessageNumber = 0
       /\ \A w \in Workers :
             ( /\ pc[w] = "direct"
               /\ pc'[w] # "direct"
               /\ CurrentDTO(w).Action = "launch"
               /\ cache[CurrentDTO(w).Channel].status # StatusLaunched )
             => /\ ret'[w] = "rocket already launched"
                /\ cache' = cache
                /\ events' = events]_vars

\* C10: a ProcessMessage call whose number is above lastMessageNumber + 1
\* returns nil, stores its dto in the channel's pending buffer under its
\* number, and leaves the rocket's snapshot and the event store unchanged.
C10_FutureIsBufferedWithoutEffect ==
    [][\A w \in Workers :
          ( /\ pc[w] = "call"
            /\ pc'[w] # "call"
            /\ NewChannelOk(job[w].Channel)
            /\ job[w].Number > RocketOf(job[w].Channel).lastMessageNumber + 1 )
          => LET ch == job[w].Channel
             IN /\ pc'[w] = "idle"
                /\ ret'[w] = ""
                /\ ch \in DOMAIN pendingMessages'
                /\ job[w].Number \in DOMAIN pendingMessages'[ch]
                /\ pendingMessages'[ch][job[w].Number] = job[w]
                /\ Snapshot(GetByChannel(cache', events', ch)[ch]) = Snapshot(RocketOf(ch))
                /\ events' = events]_vars

\* C10 witness: a call for number 2 on a channel that expects number 1 has
\* just returned nil and its dto sits in the buffer, while the other channel
\* already has a persisted event
C10_Witness ==
    /\ bufferMutex = Free
    /\ "R1" \in DOMAIN cache
    /\ cache["R1"].lastMessageNumber = 0
    /\ "R1" \in DOMAIN pendingMessages
    /\ 2 \in DOMAIN pendingMessages["R1"]
    /\ GetEventsByChannel(events, "R1") = <<>>
    /\ GetEventsByChannel(events, "R2") # <<>>
    /\ \E w \in Workers : pc[w] = "idle" /\ ret[w] = ""

\* the error the business rules demand for dto on rocket r, "" when none:
\* Launch needs the pre-flight status, every other command a rocket that has
\* not exploded
BusinessRuleError(r, dto) ==
    IF dto.Action = "launch" /\ r.status # StatusLaunched
    THEN "rocket already launched"
    ELSE IF dto.Action \in {"increase_speed", "decrease_speed", "change_mission"}
            /\ r.status = StatusExploded
    THEN "cannot change crashed rocket"
    ELSE IF dto.Action = "explode" /\ r.status = StatusExploded
    THEN "rocket already exploded"
    ELSE ""

\* C11: when a buffered command fails a business rule inside the drain loop
\* of a call whose triggering command was applied, the call returns nil.
C11_DrainFailureNotReturned ==
    [][\A w \in Workers :
          ( /\ pc[w] = "direct"
            /\ draining[w]
            /\ BusinessRuleError(cache[job[w].Channel], CurrentDTO(w)) # ""
            /\ pc'[w] # "direct" )
          => ret'[w] = ""]_vars

\* C12: when the next-expected command fails a business rule on the apply
\* path, the call returns that error and the channel's rocket, its
\* lastMessageNumber, the event store and the pending buffer are unchanged.
C12_ApplyFailureIsReturnedWithoutEffect ==
    [][\A w \in Workers :
          ( /\ pc[w] = "direct"
            /\ ~draining[w]
            /\ BusinessRuleError(cache[job[w].Channel], job[w]) # ""
            /\ pc'[w] # "direct" )
          => /\ pc'[w] = "idle"
             /\ ret'[w] = BusinessRuleError(cache[job[w].Channel], job[w])
             /\ bufferMutex' = Free
             /\ cache' = cache
             /\ events' = events
             /\ pendingMessages' = pendingMessages]_vars

\* C12 witness: a Launch with the next-expected number has just been rejected
\* on the apply path of a channel that never buffered a command
C12_Witness ==
    /\ \E w \in Workers : ret[w] = "rocket already launched"
    /\ "R1" \in DOMAIN cache
    /\ cache["R1"].lastMessageNumber >= 1
    /\ "R1" \notin DOMAIN pendingMessages

\* the actions the switch of processMessageDirect knows
KnownActions ==
    {"launch", "increase_speed", "decrease_speed", "explode", "change_mission"}

\* every channel a dto of DirectCommands may name
AllChannels == ChannelNames \cup {"", " "}

\* the step leaves the snapshot GetRocket reads for every channel, the event
\* store and the pending buffer as they were
NothingChanges ==
    /\ \A ch \in AllChannels :
          Snapshot(GetByChannel(cache', events', ch)[ch]) = Snapshot(RocketOf(ch))
    /\ events' = events
    /\ pendingMessages' = pendingMessages

\* C13: a command with an action outside the known ones changes neither a
\* rocket nor the event store nor the pending buffer at any step of its call,
\* whatever its number, and its call returns an error.
C13_UnknownActionIsRejected ==
    [][\A w \in Workers :
          ( /\ pc[w] \in {"call", "direct"}
            /\ NewChannelOk(job[w].Channel)
            /\ CurrentDTO(w).Action \notin KnownActions
            /\ pc'[w] # pc[w] )
          => /\ NothingChanges
             /\ pc'[w] = "idle" => ret'[w] \notin {"", "none"}]_vars

\* C14: a Launch with a negative speed that reaches the aggregate makes its
\* call return an error: the process lives on, nothing is applied or
\* appended, the lock is released and the worker is back at its select.
C14_NegativeLaunchSpeedIsRejected ==
    [][\A w \in Workers :
          ( /\ pc[w] = "direct"
            /\ CurrentDTO(w).Action = "launch"
            /\ CurrentDTO(w).Value < 0
            /\ (pc'[w] # pc[w] \/ crashed' # crashed) )
          => /\ ~crashed'
             /\ pc'[w] = "idle"
             /\ ret'[w] \notin {"", "none"}
             /\ bufferMutex' = Free
             /\ NothingChanges]_vars

Placed ==
    Len(jobs') - Len(jobs) + (IF \E w \in Workers : pc[w] = "idle" /\ pc'[w] = "call" THEN 1 ELSE 0)

\* C16: jobs never holds more than JobsCapacity (100) dtos; an Enqueue call
\* that finds it full (and the context live) parks with its dto kept and
\* leaves the park only by the hand-over of its dto to the freed slot or by
\* Stopped; a step places as many dtos in jobs as Enqueue calls return nil in
\* it, each call's own dto at the tail, and no step takes a dto out of jobs
\* but a worker's receive of the head.
C16_QueueIsBoundedAndEnqueueBlocks ==
    /\ [](Len(jobs) <= JobsCapacity)
    /\ [][/\ \A c \in Callers :
              /\ ( /\ epc[c] = "select"
                    /\ Len(jobs) = JobsCapacity
                    /\ ~ctxDone
                    /\ epc'[c] # "select" )
                  => (epc'[c] = "parked" /\ jobs' = jobs /\ edto'[c] = edto[c])
              /\ (epc[c] = "parked" /\ epc'[c] # "parked")
                  => \/ eret'[c] = "" /\ jobs' = Append(Tail(jobs), edto[c])
                     \/ eret'[c] = ErrStopped /\ jobs' = jobs
              /\ eret'[c] = ""
                  => /\ epc[c] \in {"select", "parked"}
                     /\ \/ jobs' = Append(jobs, edto[c])
                        \/ jobs # <<>> /\ jobs' = Append(Tail(jobs), edto[c])
           /\ Placed = Cardinality({k \in Callers : eret'[k] = ""})
           /\ Placed \in {0, 1}
           /\ Len(jobs') >= Len(jobs) - 1]_vars

\* C16 witness: jobs is full, a parked call has just been handed the slot a
\* worker freed and returned nil, and another call is still parked
C16_Witness ==
    /\ Len(jobs) = JobsCapacity
    /\ \E c \in Callers : eret[c] = ""
    /\ \E c \in Callers : epc[c] = "parked"

\* C17: once the context is cancelled no Enqueue call returns nil.
C17_NoSuccessAfterShutdown ==
    [][\A c \in Callers : ctxDone => eret'[c] # ""]_vars

\* C18: once the context is cancelled every worker goroutine eventually
\* returns and Wait eventually returns, and Wait has not returned in any state
\* where a worker has not.
C18_ShutdownCompletes ==
    /\ ctxDone ~> (\A w \in Workers : pc[w] = "exited")
    /\ ctxDone ~> (waited = "returned")
    /\ [](waited = "returned" => \A w \in Workers : pc[w] = "exited")

\* the positions of the entries for channel ch in a list of records with a
\* Channel field
EntriesOf(list, ch) == {i \in 1..Len(list) : list[i].Channel = ch}

\* C19: GetBufferStatus returns one entry for each channel whose buffer is
\* non-empty and none for any other channel, a drained one included; the
\* entry's ExpectedNext is the channel's lastMessageNumber + 1 and its
\* BufferedMessages are the buffered numbers, each once.
C19_BufferStatusListsNonEmptyBuffers ==
    reply.op = "GetBufferStatus" =>
        /\ \A i \in 1..Len(reply.status) : reply.status[i].Channel \in ReadChannels
        /\ \A ch \in ReadChannels :
              LET idx == EntriesOf(reply.status, ch)
              IN IF ch \in DOMAIN pendingMessages /\ DOMAIN pendingMessages[ch] # {}
                 THEN /\ Cardinality(idx) = 1
                      /\ \A i \in idx :
                            LET e == reply.status[i]
                            IN /\ e.ExpectedNext = RocketOf(ch).lastMessageNumber + 1
                               /\ Len(e.BufferedMessages) = Cardinality(DOMAIN pendingMessages[ch])
                               /\ {e.BufferedMessages[j] : j \in 1..Len(e.BufferedMessages)}
                                     = DOMAIN pendingMessages[ch]
                 ELSE idx = {}

\* C20: ListRockets returns one snapshot, that of the channel's rocket, for
\* each channel with at least one event in the event store and none for any
\* other channel.
C20_ListRocketsListsPersistedChannels ==
    reply.op = "ListRockets" =>
        /\ \A i \in 1..Len(reply.dtos) : reply.dtos[i].Channel \in ReadChannels
        /\ \A ch \in ReadChannels :
              LET idx == EntriesOf(reply.dtos, ch)
              IN IF Len(GetEventsByChannel(events, ch)) >= 1
                 THEN /\ Cardinality(idx) = 1
                      /\ \A i \in idx : reply.dtos[i] = RocketDTO(RocketOf(ch))
                 ELSE idx = {}

\* C20 witness: ListRockets has just returned R1 alone, while R2 has only a
\* buffered command and R3 was only read with GetRocket
C20_Witness ==
    /\ reply.op = "ListRockets"
    /\ Len(reply.dtos) = 1
    /\ reply.dtos[1].Channel = "R1"
    /\ GetEventsByChannel(events, "R1") # <<>>
    /\ "R2" \in DOMAIN pendingMessages
    /\ DOMAIN pendingMessages["R2"] # {}
    /\ GetEventsByChannel(events, "R2") = <<>>
    /\ "R3" \in DOMAIN cache

\* C21: a ProcessMessage call for a number above the expected one that is
\* already in the channel's buffer returns nil and leaves the buffer with the
\* same numbers, the incoming dto stored under its number in place of the
\* earlier one; and the command the drain loop applies for a number is the
\* dto the buffer holds under it.
C21_DuplicateFutureReplaces ==
    [][\A w \in Workers :
          /\ ( /\ pc[w] = "call"
                /\ pc'[w] # "call"
                /\ NewChannelOk(job[w].Channel)
                /\ job[w].Number > RocketOf(job[w].Channel).lastMessageNumber + 1
                /\ HasBuffered(pendingMessages, job[w].Channel, job[w].Number) )
              => /\ ret'[w] = ""
                 /\ DOMAIN pendingMessages' = DOMAIN pendingMessages
                 /\ \A ch \in DOMAIN pendingMessages :
                       /\ DOMAIN pendingMessages'[ch] = DOMAIN pendingMessages[ch]
                       /\ \A n \in DOMAIN pendingMessages[ch] :
                             pendingMessages'[ch][n] =
                                 IF ch = job[w].Channel /\ n = job[w].Number
                                 THEN job[w]
                                 ELSE pendingMessages[ch][n]
          /\ (pc[w] = "direct" /\ draining[w] /\ pc'[w] = "save")
              => LET ch == job[w].Channel
                     nextDTO == pendingMessages[ch][NextNum(expected[w])]
                 IN /\ nextDTO.Number = NextNum(expected[w])
                    /\ cache'[ch] = Dispatch(cache[ch], nextDTO).rocket]_vars

\* C21 witness: three commands of R1 were sent and processed; two of them
\* were buffered under number 2 before number 1 was launched, and the
\* explosion, the one left in the buffer, was applied by the drain
C21_Witness ==
    /\ sent = 3
    /\ jobs = <<>>
    /\ \A w \in Workers : pc[w] = "idle"
    /\ \E w \in Workers : ret[w] = ""
    /\ "R1" \in DOMAIN pendingMessages
    /\ DOMAIN pendingMessages["R1"] = {}
    /\ Len(GetEventsByChannel(events, "R1")) = 2
    /\ GetEventsByChannel(events, "R1")[1].type = "rocket_launched"
    /\ GetEventsByChannel(events, "R1")[2].type = "rocket_exploded"

IsPrefix(a, b) == Len(a) <= Len(b) /\ SubSeq(b, 1, Len(a)) = a

\* C22: a ListEvents result is the channel's log at the moment of the call,
\* event by event in the log's order; every step leaves each channel's log a
\* prefix of what it becomes, and a step that extends a log appends the
\* events the worker's rocket applied since its last Save, in the order it
\* applied them. So of any two results for a channel the earlier is a prefix
\* of the later.
C22_EventLogIsAppendOnly ==
    /\ [](reply.op = "ListEvents" =>
            IF NewChannelOk(reply.channel)
            THEN LET evs == GetEventsByChannel(events, reply.channel)
                 IN /\ reply.err = ""
                    /\ reply.dtos = [i \in 1..Len(evs) |-> EventDTO(evs[i])]
            ELSE reply.err # "")
    /\ [][\A ch \in ReadChannels :
            LET old == GetEventsByChannel(events, ch)
                new == GetEventsByChannel(events', ch)
            IN /\ IsPrefix(old, new)
               /\ new # old =>
                     \E w \in Workers :
                         /\ pc[w] = "save"
                         /\ held[w].channel = ch
                         /\ new = old \o held[w].uncommittedEvents]_vars

\* C22 witness: ListEvents has just returned the two events of R1 while a
\* worker is about to append to the log of R2
C22_Witness ==
    /\ reply.op = "ListEvents"
    /\ reply.channel = "R1"
    /\ Len(reply.dtos) = 2
    /\ reply.dtos[1].MessageNumber = 1
    /\ reply.dtos[2].MessageNumber = 2
    /\ \E w \in Workers : pc[w] = "save" /\ held[w].channel = "R2"

\* C23: whenever no ProcessMessage call holds the engine lock, every number
\* in a channel's buffer is greater than the lastMessageNumber of the
\* channel's rocket.
C23_BufferHoldsOnlyFutureNumbers ==
    bufferMutex = Free =>
        \A ch \in DOMAIN pendingMessages :
            \A n \in DOMAIN pendingMessages[ch] :
                n > RocketOf(ch).lastMessageNumber

\* C24: when a ProcessMessage call that took the apply path returns, with nil
\* or with an error, the channel's buffer has no entry under
\* lastMessageNumber + 1.
C24_NoNextNumberLeftAfterApplyPath ==
    [][\A w \in Workers :
          (pc[w] \in {"direct", "save"} /\ pc'[w] = "idle")
              => ~HasBuffered(pendingMessages', job[w].Channel,
                              cache'[job[w].Channel].lastMessageNumber + 1)]_vars

\* C25: when the command the drain loop took from the buffer fails a
\* business rule, the call returns there, that command is no longer in the
\* buffer, and the entries under higher numbers are as they were.
C25_FailedDrainEntryIsDropped ==
    [][\A w \in Workers :
          ( /\ pc[w] = "direct"
            /\ draining[w]
            /\ ret'[w] \notin {"none", ""} )
              => LET ch == job[w].Channel
                     n == NextNum(expected[w])
                 IN /\ pc'[w] = "idle"
                    /\ n \notin DOMAIN pendingMessages'[ch]
                    /\ \A m \in DOMAIN pendingMessages[ch] :
                          m > n => /\ m \in DOMAIN pendingMessages'[ch]
                                   /\ pendingMessages'[ch][m] = pendingMessages[ch][m]]_vars

RECURSIVE RunEnd(_, _, _)
\* the last number m of the run k+1, ..., m that the buffer pm of ch holds
\* contiguously above k (k itself when k+1 is not buffered)
RunEnd(pm, ch, k) ==
    IF ch \in DOMAIN pm /\ (k + 1) \in DOMAIN pm[ch] THEN RunEnd(pm, ch, k + 1) ELSE k

\* C26: while a call is on the apply path, with n its dto's number and m the
\* end of the buffered run above n, every step keeps the end of the run above
\* the call's current number at m; each drain step applies the number just
\* above the last one applied; and the call returns nil with
\* lastMessageNumber = m, the log numbered 1..m in order, and the buffer as
\* it was without the numbers up to m.
C26_DrainAppliesBufferedRun ==
    [][\A w \in Workers :
          LET ch == job[w].Channel
              m == RunEnd(pendingMessages, ch, expected[w])
          IN /\ (pc[w] \in {"direct", "save"} /\ pc'[w] \in {"direct", "save"})
                 => /\ RunEnd(pendingMessages', ch, expected'[w]) = m
                    /\ expected'[w] \in {expected[w], expected[w] + 1}
                    /\ expected'[w] <= m
             /\ (pc[w] = "direct" /\ draining[w] /\ pc'[w] # "direct")
                 => /\ pc'[w] = "save"
                    /\ cache[ch].lastMessageNumber = expected[w]
                    /\ cache'[ch].lastMessageNumber = expected[w] + 1
             /\ (pc[w] = "save" /\ pc'[w] = "idle")
                 => /\ ret'[w] = ""
                    /\ cache'[ch].lastMessageNumber = m
                    /\ Len(events'[ch]) = m
                    /\ \A i \in 1..m : events'[ch][i].messageNumber = i
                    /\ DOMAIN pendingMessages' = DOMAIN pendingMessages
                    /\ \A c \in DOMAIN pendingMessages :
                          /\ DOMAIN pendingMessages'[c] =
                                {k \in DOMAIN pendingMessages[c] : c # ch \/ k > m}
                          /\ \A k \in DOMAIN pendingMessages'[c] :
                                pendingMessages'[c][k] = pendingMessages[c][k]]_vars

\* C26 witness: the call for number 1 has applied number 2 from the buffer,
\* which holds 2 and 4 and not 3
C26_Witness ==
    \E w \in Workers :
        /\ pc[w] = "save"
        /\ draining[w]
        /\ job[w].Number = 1
        /\ held[w].lastMessageNumber = 2
        /\ DOMAIN pendingMessages["R1"] = {2, 4}

\* C27: with GetRocket running beside the workers, the cached rocket of a
\* channel never has a lastMessageNumber below the length of the channel's
\* log, its lastMessageNumber never decreases, and no sequence number occurs
\* twice in a channel's log.
C27_ReadsKeepCachedState ==
    /\ [](\A ch \in DOMAIN cache :
            cache[ch].lastMessageNumber >= Len(GetEventsByChannel(events, ch)))
    /\ [][\A ch \in DOMAIN cache :
            cache'[ch].lastMessageNumber >= cache[ch].lastMessageNumber]_vars
    /\ [](\A ch \in DOMAIN events :
            \A i, j \in 1..Len(events[ch]) :
                i < j => events[ch][i].messageNumber # events[ch][j].messageNumber)

\* the workers inside the body of ProcessMessage beyond its classification
InApplyPath == {w \in Workers : pc[w] \in {"direct", "save"}}

\* C28: at most one worker is inside the body of ProcessMessage, and it is
\* the holder of bufferMutex; from a call's classification to its return no
\* step of anybody else changes the buffer or the log, takes the lock or
\* returns from ProcessMessage or GetBufferStatus; and GetBufferStatus
\* returns only what it read while no call was inside.
C28_ProcessMessageIsMutuallyExclusive ==
    /\ [](/\ Cardinality(InApplyPath) <= 1
          /\ \A w \in Workers : w \in InApplyPath <=> bufferMutex = w
          /\ reply.op = "GetBufferStatus" => bufferMutex = Free)
    /\ [][\A w \in Workers :
            (bufferMutex = w /\ pc'[w] = pc[w])
                => /\ bufferMutex' = w
                   /\ pendingMessages' = pendingMessages
                   /\ events' = events
                   /\ reply'.op # "GetBufferStatus"
                   /\ \A v \in Workers \ {w} :
                         /\ ret'[v] = "none"
                         /\ pc[v] = "call" => pc'[v] = "call"]_vars

\* C28 witness: one worker is between its aggregate command and Save while
\* the other waits at the Lock of its own call for the same channel
C28_Witness ==
    \E w, v \in Workers :
        /\ pc[w] = "save"
        /\ bufferMutex = w
        /\ pc[v] = "call"
        /\ job[v].Channel = job[w].Channel

\* every event a cached rocket applied is in the log
AllPersisted(c, evs) ==
    \A ch \in DOMAIN c :
        /\ c[ch].uncommittedEvents = <<>>
        /\ c[ch].lastMessageNumber = Len(GetEventsByChannel(evs, ch))

ErrOutOfOrder == "message number out of order"

\* C30: while every command reaches the aggregate through ProcessMessage, no
\* call returns the aggregate's "message number out of order" error: the
\* sequence check of Launch, IncreaseSpeed, DecreaseSpeed, Explode and
\* ChangeMission always passes.
C30_SequenceCheckAlwaysPasses ==
    \A w \in Workers : ret[w] # ErrOutOfOrder

\* the elements of a sequence
Range(seq) == { seq[i] : i \in 1..Len(seq) }

\* C31: a successful aggregate command leaves exactly one uncommitted event,
\* which is not yet in the log; the Save that follows appends exactly that
\* event at the end of its channel's log and empties the list; no other step
\* changes the log; no log holds an event twice; and whenever a ProcessMessage
\* call returns, every cached rocket's uncommittedEvents is empty.
C31_EventsAppendedOnceBySave ==
    /\ [](\A w \in Workers :
            /\ ret[w] # "none"
                => \A ch \in DOMAIN cache : cache[ch].uncommittedEvents = <<>>
            /\ pc[w] = "save"
                => /\ Len(held[w].uncommittedEvents) = 1
                   /\ held[w].uncommittedEvents[1]
                         \notin Range(GetEventsByChannel(events, held[w].channel)))
    /\ [](\A ch \in DOMAIN events :
            \A i, j \in 1..Len(events[ch]) : events[ch][i] = events[ch][j] => i = j)
    /\ [][/\ \A w \in Workers :
                /\ (pc[w] = "direct" /\ pc'[w] = "save")
                    => /\ held'[w].uncommittedEvents[1].messageNumber = CurrentDTO(w).Number
                       /\ held'[w].channel = CurrentDTO(w).Channel
                       /\ UNCHANGED events
                /\ pc[w] = "save" /\ pc'[w] # "save"
                    => LET ch == held[w].channel
                       IN /\ events' = MapPut(events, ch,
                                              GetEventsByChannel(events, ch)
                                                  \o held[w].uncommittedEvents)
                          /\ cache'[ch].uncommittedEvents = <<>>
          /\ (\A v \in Workers : pc[v] # "save") => UNCHANGED events]_vars

\* C31 witness: a call returns nil after its drain, two events of the
\* channel are in the log and the cached rocket has nothing uncommitted
C31_Witness ==
    \E w \in Workers :
        /\ ret[w] = ""
        /\ "R1" \in DOMAIN events
        /\ Len(events["R1"]) = 2
        /\ "R1" \notin DOMAIN pendingMessages \/ pendingMessages["R1"] = EmptyMap
        /\ "R1" \in DOMAIN pendingMessages
        /\ cache["R1"].uncommittedEvents = <<>>

\* the last event of log h whose type is in types, or none
LastOfTypes(h, types) ==
    LET idx == { i \in 1..Len(h) : h[i].type \in types }
    IN IF idx = {} THEN [type |-> "none"]
       ELSE h[CHOOSE i \in idx : \A j \in idx : j <= i]

\* C32: the rocket GetByChannel rehydrates has every field as the last event
\* of the log that writes the field left it, whatever the order, the numbers
\* and the statuses the events meet, and its uncommittedEvents is empty; a
\* Save of it, and the rehydration itself, leave the log as it was.
C32_ReplayAppendsNothing ==
    /\ [](\A ch \in DOMAIN cache :
            LET h == GetEventsByChannel(events, ch)
                r == cache[ch]
                st == LastOfTypes(h, {"rocket_launched", "rocket_exploded"})
                sp == LastOfTypes(h, {"rocket_launched", "rocket_speed_increased",
                                      "rocket_speed_decreased"})
                mi == LastOfTypes(h, {"rocket_launched", "rocket_mission_changed"})
                la == LastOfTypes(h, {"rocket_launched"})
            IN /\ r.uncommittedEvents = <<>>
               /\ r.lastMessageNumber = IF h = <<>> THEN 0 ELSE h[Len(h)].messageNumber
               /\ r.status = CASE st.type = "rocket_launched" -> StatusFlying
                                [] st.type = "rocket_exploded" -> StatusExploded
                                [] OTHER -> StatusLaunched
               /\ r.speed = CASE sp.type = "rocket_launched" -> sp.speed
                               [] sp.type = "none" -> 0
                               [] OTHER -> sp.newSpeed
               /\ r.mission = CASE mi.type = "rocket_launched" -> mi.mission
                                 [] mi.type = "none" -> MissionUnknown
                                 [] OTHER -> mi.newMission
               /\ r.rocketType = IF la.type = "none" THEN "unknown" ELSE la.rocketType)
    /\ [][events' = events]_vars

\* C32 witness: Save ran on a rocket rehydrated from a log that no sequence
\* of commands produces: an explosion followed by a launch under a lower number
C32_Witness ==
    /\ reply = [op |-> "Save", channel |-> "R1"]
    /\ "R1" \in DOMAIN events
    /\ Len(events["R1"]) = 2
    /\ events["R1"][1].type = "rocket_exploded"
    /\ events["R1"][2].type = "rocket_launched"
    /\ events["R1"][2].messageNumber < events["R1"][1].messageNumber
    /\ cache["R1"].status = StatusFlying

\* C33: while shutdown is not signalled, a dto leaves the queue only from its
\* head and only into the hands of the one worker that then calls
\* ProcessMessage with it, a worker gets a dto only that way, and every dto
\* in the queue is eventually in the hands of a worker.
C33_AcceptedIsProcessedOnce ==
    /\ [][/\ jobs' # jobs
               => \/ \E c \in Callers : eret'[c] = "" /\ jobs' = Append(jobs, edto[c])
                  \/ /\ jobs # <<>>
                     /\ jobs' = Tail(jobs)
                     /\ \E w \in Workers :
                           /\ pc[w] = "idle" /\ pc'[w] = "call"
                           /\ job'[w] = Head(jobs)
                           /\ \A v \in Workers \ {w} : pc'[v] = pc[v] /\ job'[v] = job[v]
          /\ \A w \in Workers :
                (pc'[w] = "call" /\ pc[w] # "call")
                    => jobs # <<>> /\ job'[w] = Head(jobs) /\ jobs' = Tail(jobs)
          /\ \A w \in Workers : job'[w] # job[w] => job'[w] = NoDTO \/ job[w] = NoDTO]_vars
    /\ \A dto \in ShutdownCommands :
          (~ctxDone /\ \E i \in 1..Len(jobs) : jobs[i] = dto)
              ~> (\E w \in Workers : pc[w] = "call" /\ job[w] = dto)

\* C34: once Wait() has returned after the shutdown signal, the queue is
\* empty and no worker holds a dto it has not finished: every dto whose
\* Enqueue returned nil was passed to ProcessMessage.
C34_NothingQueuedAfterWait ==
    waited = "returned"
        => /\ jobs = <<>>
           /\ \A w \in Workers : job[w] = NoDTO

\* C35: while the process runs and shutdown is not signalled, whenever the
\* queue holds a dto or an Enqueue call is parked on the full queue, some
\* worker can take a step; the engine lock is held only by a worker inside
\* the apply path of its ProcessMessage call, and it is free whenever a
\* ProcessMessage call has returned, with nil or with an error, and whenever
\* GetBufferStatus has returned.
C35_NoDeadlock ==
    /\ (~crashed /\ ~ctxDone /\ (jobs # <<>> \/ sendq # <<>>))
          => \E w \in Workers : ENABLED WorkerStep(w)
    /\ bufferMutex \in {Free} \cup Workers
    /\ \A w \in Workers :
          /\ bufferMutex = w => pc[w] \in {"direct", "save"} \/ crashed
          /\ ret[w] # "none" => bufferMutex = Free /\ pc[w] = "idle"
    /\ reply.op = "GetBufferStatus" => bufferMutex = Free

\* C35 witness: an Enqueue call is parked on the full queue while one worker
\* holds the engine lock and the other waits for it
C35_Witness ==
    /\ ~ctxDone
    /\ sendq # <<>>
    /\ Len(jobs) = JobsCapacity
    /\ \E w, v \in Workers :
          /\ bufferMutex = w
          /\ pc[w] = "save"
          /\ pc[v] = "call"

\* the last event a rocket has applied and not yet saved, or none
LastUncommitted(r) ==
    IF r.uncommittedEvents = <<>> THEN [type |-> "none"]
    ELSE r.uncommittedEvents[Len(r.uncommittedEvents)]

\* C36: in every step the rocket of a channel keeps its status or moves it
\* from Launched to Flying with a RocketLaunched event, or from Launched or
\* Flying to Exploded with a RocketExploded event, and its lastMessageNumber
\* does not decrease; a rocket that enters the cache by rehydration carries
\* the last number of the channel's log.
C36_StatusOnlyMovesForward ==
    [][/\ \A ch \in DOMAIN cache :
            /\ ch \in DOMAIN cache'
            /\ cache'[ch].lastMessageNumber >= cache[ch].lastMessageNumber
            /\ cache'[ch].status # cache[ch].status
                => \/ /\ cache[ch].status = StatusLaunched
                      /\ cache'[ch].status = StatusFlying
                      /\ LastUncommitted(cache'[ch]).type = "rocket_launched"
                   \/ /\ cache[ch].status \in {StatusLaunched, StatusFlying}
                      /\ cache'[ch].status = StatusExploded
                      /\ LastUncommitted(cache'[ch]).type = "rocket_exploded"
       /\ \A ch \in DOMAIN cache' \ DOMAIN cache :
            cache'[ch].lastMessageNumber = Len(GetEventsByChannel(events, ch))]_vars

BufferedNumbers(pm, ch) == IF ch \in DOMAIN pm THEN DOMAIN pm[ch] ELSE {}

\* C38: once the rocket of a channel has exploded at number n, no step
\* changes the rocket or the channel's log again apart from saving the
\* explosion itself, a command with a number above n + 1 is put in the buffer
\* and its ProcessMessage call returns nil, and no number above n leaves the
\* channel's buffer.
C38_ExplodedChannelBufferOnlyGrows ==
    [][\A ch \in DOMAIN cache :
          cache[ch].status = StatusExploded
            => LET n == cache[ch].lastMessageNumber
               IN /\ cache'[ch] \in {cache[ch], MarkEventsAsCommitted(cache[ch])}
                  /\ cache[ch].uncommittedEvents = <<>>
                        => GetEventsByChannel(events', ch) = GetEventsByChannel(events, ch)
                  /\ \A k \in BufferedNumbers(pendingMessages, ch) :
                        k > n => k \in BufferedNumbers(pendingMessages', ch)
                  /\ \A w \in Workers :
                        (pc[w] = "call" /\ pc'[w] # "call" /\ job[w].Channel = ch
                            /\ job[w].Number > n + 1)
                          => /\ ret'[w] = ""
                             /\ pendingMessages' = BufferPut(pendingMessages, job[w])]_vars

\* C38 witness: R1 exploded at number 1 and its buffer holds the numbers 3
\* and 4, the second just accepted with nil
C38_Witness ==
    /\ "R1" \in DOMAIN cache
    /\ cache["R1"].status = StatusExploded
    /\ cache["R1"].lastMessageNumber = 1
    /\ BufferedNumbers(pendingMessages, "R1") = {3, 4}
    /\ \E w \in Workers : ret[w] = ""

\* C39: a step of GetRocket, ListRockets, ListEvents or GetBufferStatus
\* leaves the event log and the pending buffer as they were, and for every
\* channel, also one that never received a command, the snapshot and
\* lastMessageNumber of the rocket GetByChannel returns are the same after the
\* step as before it.
C39_ReadsChangeNothing ==
    [][(reply' # NoReply \/ reader' # reader)
          => /\ UNCHANGED <<events, pendingMessages>>
             /\ \A ch \in ReadChannels \ {""} :
                   Snapshot(GetByChannel(cache', events', ch)[ch])
                       = Snapshot(GetByChannel(cache, events, ch)[ch])]_vars

====
